---- MODULE Spec2Model ----
(***************************************************************************)
(* A model of the webp batch converter: bounded-depth directory            *)
(* flattening (file_utils.rs), configuration generation and the parallel   *)
(* per-file conversion with its reduction (image_processing.rs), and the   *)
(* wrapper around the libwebp encoder (webp_wrapper.rs).                   *)
(*                                                                         *)
(* A file name is a sequence of its dot-separated segments                 *)
(* ("img.v1.png" is <<"img","v1","png">>, ".rc" is <<"","rc">>), and a     *)
(* path is a sequence of names ("a/b/img.png" is                           *)
(* << <<"a">>, <<"b">>, <<"img","png">> >>; the empty path "" is << >>).   *)
(***************************************************************************)
EXTENDS Integers, Sequences, FiniteSets, Bags, TLC

VARIABLES
    fs,             \* the filesystem: path -> "file" | "dir" | "other"
    file_len,       \* input file path -> metadata().len()
    readonly,       \* the directories in which nothing can be created
    listing,        \* directory path -> the entries read_dir yields, in order
    cli,            \* args::Cli: quality, lossless, method, max_depth, use_initial_if_smaller
    input_root,     \* Cli::input_path()
    output_root,    \* Cli::output_path()
    validate_ok,    \* what WebPValidateConfig answers for the run's configuration
    num_threads,    \* size of the rayon pool
    config,         \* the WebPConfig of generate_config (NoConfig before it ran)
    images,         \* Paths.input.images
    run,            \* "start" | "built" | "running" | "returned" | "panicked"
    next_item,      \* index of the next path the bridged iterator hands out
    task,           \* per image: the state of its map closure / convert_file call
    partials,       \* bag of the partial results of the reduction
    total,          \* what convert_file_all returned
    writes          \* the fs::write calls that succeeded: [by, path, what]

vars == <<fs, file_len, readonly, listing, cli, input_root, output_root, validate_ok, num_threads,
          config, images, run, next_item, task, partials, total, writes>>

----------------------------------------------------------------------------
(* Bounds of the model. *)

\* directory levels below the root in the trees SpecFlatten enumerates
TreeDepth == 3
\* max_depth ranges over 0..MaxDepthArg in SpecFlatten
MaxDepthArg == 3
\* at most MaxFiles images in the input tree of Spec
MaxFiles == 2
\* the rayon pool has one thread or MaxThreads threads
MaxThreads == 2
\* --quality, --lossless and --method range over 0..Max...Arg in SpecConfig
MaxQualityArg == 101
MaxLosslessArg == 2
MaxMethodArg == 7

----------------------------------------------------------------------------
(* std::path on the name/segment representation. *)

\* Path::parent: None for the empty path
HasParent(p) == Len(p) > 0
Parent(p) == SubSeq(p, 1, Len(p) - 1)

\* Path::join with a relative path
Join(p, q) == p \o q

\* Path::starts_with / strip_prefix
StartsWith(p, base) == Len(base) <= Len(p) /\ SubSeq(p, 1, Len(base)) = base
StripPrefix(p, base) == SubSeq(p, Len(base) + 1, Len(p))

\* rsplit_file_at_dot: a name with no dot, or whose only dot is the leading
\* one, has no extension
NameHasExtension(n) == Len(n) > 1 /\ ~(Len(n) = 2 /\ n[1] = "")
NameStem(n) == IF NameHasExtension(n) THEN SubSeq(n, 1, Len(n) - 1) ELSE n

\* Path::file_stem (None when the path has no file name)
HasFileName(p) == Len(p) > 0
FileStem(p) == NameStem(p[Len(p)])

\* Path::extension().is_some()
HasExtension(p) == HasFileName(p) /\ NameHasExtension(p[Len(p)])

\* Path::with_extension: the last name's stem, then "." and the extension
WithExtension(p, ext) ==
    IF ~HasFileName(p) THEN p
    ELSE Append(Parent(p), Append(NameStem(p[Len(p)]), ext))

\* Path::is_file / is_dir / exists
Kind(p) == IF p \in DOMAIN fs THEN fs[p] ELSE "none"
is_file(p) == Kind(p) = "file"
is_dir(p) == Kind(p) = "dir"
exists(p) == Kind(p) # "none"

\* read_dir(p): the stream of entries, each Ok(path) or Err
read_dir(p) == IF p \in DOMAIN listing THEN listing[p] ELSE << >>

----------------------------------------------------------------------------
(* file_utils.rs: Paths::build / Paths::flatten_dir *)

\* depth.current + 1 > depth.max
DepthExceededOffByOne(depth) == depth.current + 1 >= depth.max
DepthExceeded(depth) == depth.current + 1 > depth.max

NewDepth(depth) == [current |-> depth.current + 1, max |-> depth.max]

RECURSIVE flatten_dir(_, _, _)
RECURSIVE flatten_entries(_, _, _, _)
RECURSIVE flatten_entries_continue(_, _, _, _)

\* the for loop over read_dir: the first Err entry, or the depth bound,
\* returns from flatten_dir and leaves the rest of the stream unread
flatten_entries_continue(entries, i, all_files, depth) ==
    IF i > Len(entries) THEN all_files
    ELSE IF ~entries[i].ok \/ DepthExceeded(depth)
         THEN flatten_entries_continue(entries, i + 1, all_files, depth)
    ELSE flatten_entries_continue(entries, i + 1,
                         flatten_dir(entries[i].path, all_files, NewDepth(depth)),
                         depth)
flatten_entries(entries, i, all_files, depth) ==
    IF i > Len(entries) THEN all_files
    ELSE IF ~entries[i].ok \/ DepthExceeded(depth) THEN all_files
    ELSE flatten_entries(entries, i + 1,
                         flatten_dir(entries[i].path, all_files, NewDepth(depth)),
                         depth)

flatten_dir(input_path, all_files, depth) ==
    IF is_file(input_path) THEN Append(all_files, input_path)
    ELSE IF is_dir(input_path)
         THEN flatten_entries(read_dir(input_path), 1, all_files, depth)
         ELSE all_files

\* Paths::build: depth starts at 0 for the root
PathsBuild(input_path, max_depth) ==
    flatten_dir(input_path, << >>, [current |-> 0, max |-> max_depth])

----------------------------------------------------------------------------
(* args.rs: the defaults of Cli *)

DefaultQuality == 100
DefaultLossless == 1
DefaultMethod == 6
DefaultMaxDepth == 8

\* the largest value of a u8 / of quality
MaxQuality == 100

NoConfig == [lossless |-> -1, quality |-> -1, method |-> -1, thread_level |-> -1]

\* image_processing.rs: generate_config
LosslessNotForced(args) == args.lossless
Lossless(args) == IF args.quality = MaxQuality THEN args.lossless ELSE 0

\* `as i32` of a u8 zero-extends: every u8 (0..255) is the same i32
AsI32(x) == x % 256

\* `as f32` of a u8: every integer below 2^24 is a float
AsF32(x) == x

generate_config(args) ==
    [lossless |-> AsI32(Lossless(args)),
     quality |-> AsF32(args.quality),
     method |-> AsI32(args.method),
     thread_level |-> 1]

----------------------------------------------------------------------------
(* main.rs: try_main, up to convert_file_all *)

GenerateConfig ==
    /\ run = "start"
    /\ config' = generate_config(cli)
    /\ run' = "configured"
    /\ UNCHANGED <<fs, file_len, readonly, listing, cli, input_root, output_root, validate_ok,
                   num_threads, images, next_item, task, partials, total, writes>>

Build ==
    /\ run = "configured"
    /\ images' = PathsBuild(input_root, cli.max_depth)
    /\ run' = "built"
    /\ UNCHANGED <<fs, file_len, readonly, listing, cli, input_root, output_root, validate_ok,
                   num_threads, config, next_item, task, partials, total, writes>>

----------------------------------------------------------------------------
(* The directory trees of SpecFlatten: under the root r a chain of         *)
(* entries x of TreeDepth levels, each level with a sibling y; every entry *)
(* is absent, a file, a directory or something else (a socket, a dangling  *)
(* link), and at most one entry fails to read. The directory r/x may hold  *)
(* a third entry, the file z, which its listing yields last.               *)

X == <<"x">>
Y == <<"y">>
Z == <<"z">>
FlatRoot == << <<"r">> >>

RECURSIVE Chain(_)
Chain(d) == IF d = 0 THEN FlatRoot ELSE Append(Chain(d - 1), X)

\* r/x/z
Third == Append(Chain(1), Z)

Universe ==
    {Chain(d) : d \in 1..TreeDepth} \cup {Append(Chain(d - 1), Y) : d \in 1..TreeDepth}
        \cup {Third}

Trees ==
    {k \in [Universe \cup {FlatRoot} -> {"none", "file", "dir", "other"}] :
        /\ k[FlatRoot] \in {"file", "dir"}
        /\ k[Third] \in {"none", "file"}
        /\ \A p \in Universe : k[p] # "none" => k[Parent(p)] = "dir"}

\* no entry fails to read
NoEntry == << >>

\* the entries of directory p: x before y or y before x, then z
EntriesOf(k, p, xFirst, errAt) ==
    LET ex == Append(p, X)
        ey == Append(p, Y)
        ez == Append(p, Z)
        e(q) == IF q \in Universe /\ k[q] # "none"
                THEN << [ok |-> q # errAt, path |-> q] >> ELSE << >>
    IN (IF xFirst THEN e(ex) \o e(ey) ELSE e(ey) \o e(ex)) \o e(ez)

DefaultCli(max_depth, flag) ==
    [quality |-> DefaultQuality, lossless |-> DefaultLossless,
     method |-> DefaultMethod, max_depth |-> max_depth,
     use_initial_if_smaller |-> flag]

InitFlatten ==
    \E k \in Trees, xFirst \in BOOLEAN, m \in 0..MaxDepthArg :
    \E errAt \in {NoEntry} \cup {p \in Universe : k[p] # "none"} :
        /\ fs = [p \in {q \in DOMAIN k : k[q] # "none"} |-> k[p]]
        /\ file_len = [p \in {q \in DOMAIN k : k[q] = "file"} |-> 1]
        /\ readonly = {}
        /\ listing = [p \in {q \in DOMAIN k : k[q] = "dir"} |->
                         EntriesOf(k, p, xFirst, errAt)]
        /\ cli = DefaultCli(m, 0)
        /\ input_root = FlatRoot
        /\ output_root = << <<"out">> >>
        /\ validate_ok = 1
        /\ num_threads = 1
        /\ config = NoConfig
        /\ images = << >>
        /\ run = "start"
        /\ next_item = 1
        /\ task = << >>
        /\ partials = EmptyBag
        /\ total = <<0, 0, 0>>
        /\ writes = {}

NextFlatten == GenerateConfig \/ Build

SpecFlatten == InitFlatten /\ [][NextFlatten]_vars

Range(s) == {s[i] : i \in DOMAIN s}

\* no entry of any directory fails to read
NoReadError == \A p \in DOMAIN listing : \A i \in DOMAIN listing[p] : listing[p][i].ok

\* depth of p below the root, the root being depth 0
DepthBelow(p, root) == Len(p) - Len(root)

FilesWithin(root, m) ==
    {p \in DOMAIN fs : fs[p] = "file" /\ StartsWith(p, root) /\ DepthBelow(p, root) <= m}

\* C1: without directory-entry read errors, Paths::build returns exactly the
\* regular files at depth <= max_depth below the root (the root is depth 0),
\* each once; a root that is a regular file yields the one-element sequence
\* [root] for every max_depth.
C1_FlattenExact ==
    (run = "built" /\ NoReadError) =>
        /\ Range(images) = FilesWithin(input_root, cli.max_depth)
        /\ Len(images) = Cardinality(Range(images))
        /\ is_file(input_root) => images = <<input_root>>

\* a built tree with a file within the depth bound, one beyond it, and no
\* read error
C1_Witness ==
    /\ run = "built"
    /\ NoReadError
    /\ is_dir(input_root)
    /\ images # << >>
    /\ \E p \in DOMAIN fs : fs[p] = "file" /\ DepthBelow(p, input_root) > cli.max_depth

\* a root that is a regular file, flattened with max_depth 0
C1_WitnessFileRoot ==
    run = "built" /\ is_file(input_root) /\ cli.max_depth = 0 /\ images = <<input_root>>

----------------------------------------------------------------------------
(* SpecConfig: generate_config over the command lines. *)

InitConfig ==
    \E q \in 0..MaxQualityArg, l \in 0..MaxLosslessArg, m \in 0..MaxMethodArg :
        /\ cli = [quality |-> q, lossless |-> l, method |-> m,
                  max_depth |-> DefaultMaxDepth, use_initial_if_smaller |-> 0]
        /\ fs = (FlatRoot :> "dir")
        /\ file_len = << >>
        /\ readonly = {}
        /\ listing = (FlatRoot :> << >>)
        /\ input_root = FlatRoot
        /\ output_root = << <<"out">> >>
        /\ validate_ok = 1
        /\ num_threads = 1
        /\ config = NoConfig
        /\ images = << >>
        /\ run = "start"
        /\ next_item = 1
        /\ task = << >>
        /\ partials = EmptyBag
        /\ total = <<0, 0, 0>>
        /\ writes = {}

NextConfig == GenerateConfig

SpecConfig == InitConfig /\ [][NextConfig]_vars

\* C9: for quality q in 0..100, lossless flag l and method m, the generated
\* configuration has quality q, method m, and lossless l when q = 100 and
\* lossless 0 for every other q, whatever l is.
C9_ConfigCoupling ==
    (run = "configured" /\ cli.quality \in 0..100) =>
        /\ config.quality = cli.quality
        /\ config.method = cli.method
        /\ cli.quality = 100 => config.lossless = cli.lossless
        /\ cli.quality # 100 => config.lossless = 0

\* a configuration generated from a quality below 100 with the lossless flag set
C9_Witness ==
    /\ run = "configured"
    /\ cli.quality = 99
    /\ cli.lossless = 1
    /\ config.lossless = 0

----------------------------------------------------------------------------
(* image_processing.rs: convert_file_all and convert_file; webp_wrapper.rs: *)
(* image_to_webp, encode, new_picture and the two Drop impls.               *)

static == <<file_len, readonly, listing, cli, input_root, output_root, validate_ok,
            num_threads, config, images>>

\* VP8StatusCode::VP8_STATUS_OK as i32
VP8_STATUS_OK == 0

IdleTask ==
    [pc |-> "idle",           \* where the closure of this image stands
     output |-> << >>,        \* the closure's output_path
     write_path |-> << >>,    \* convert_file's output_path
     picture |-> "none",      \* ManagedPicture: none | live | freed
     calls |-> << >>,         \* the libwebp calls of image_to_webp, in order
     enc_err |-> "none",      \* the Err of image_to_webp
     mem |-> "none",          \* WebPMemory: none | live | freed
     webp_len |-> 0,          \* WebPMemory.1
     status |-> -1,           \* what WebPEncode returned (-1: not called)
     mem_frees |-> 0,         \* calls of WebPFree on the buffer
     mem_bad_read |-> FALSE,  \* the buffer was read when not live
     failed_at |-> "none",    \* stem | decode | encode | mkdir | parent | write
     ret |-> "none",          \* convert_file: none | ok | err | panic
     out_size |-> 0,          \* the Ok value of convert_file
     result |-> <<0, 0, 0>>]  \* what the closure returned

Tasks == DOMAIN task

\* the closures running: past the encoder, before their return
InFlight == {t \in Tasks : task[t].pc \in {"exists", "mkdir", "write"}}
Panicked == {t \in Tasks : task[t].pc = "panicked"}

\* convert_file_all is entered: nothing handed out yet
Start ==
    /\ run = "built"
    /\ run' = "running"
    /\ task' = [i \in 1..Len(images) |-> IdleTask]
    /\ next_item' = 1
    /\ UNCHANGED <<fs, static, partials, total, writes>>

\* the reduction's identity and combiner
Identity == <<0, 0, 0>>
CombineKeepsLeftCount(a, b) == <<a[1] + b[1], a[2] + b[2], a[3]>>
Combine(a, b) == <<a[1] + b[1], a[2] + b[2], a[3] + b[3]>>

\* what the closure returns for a convert_file that returned `ret`
ClosureResultSkipsFailed(len, ret, out_size) ==
    IF ret = "err" THEN <<0, 0, 0>> ELSE <<len, out_size, 1>>
ClosureResult(len, ret, out_size) ==
    IF ret = "err" THEN <<len, 0, 1>> ELSE <<len, out_size, 1>>

\* the fold that ran a closure adds its triple r to its accumulator: a
\* partial result already there, or a fresh identity
Accumulate(r) ==
    \/ /\ BagCardinality(partials) < num_threads
       /\ partials' = partials (+) SetToBag({Combine(Identity, r)})
    \/ \E acc \in BagToSet(partials) :
          partials' = (partials (-) SetToBag({acc})) (+) SetToBag({Combine(acc, r)})

\* the closure of image t after a step of convert_file that left the record
\* s: convert_file still runs, or it returned and the closure's triple is
\* accumulated, or it panicked and the panic unwinds through the closure
Closure(t, s) ==
    LET r == ClosureResult(file_len[images[t]], s.ret, s.out_size)
    IN CASE s.ret = "none" ->
              /\ task' = [task EXCEPT ![t] = s]
              /\ partials' = partials
         [] s.ret = "panic" ->
              /\ task' = [task EXCEPT ![t] = [s EXCEPT !.pc = "panicked"]]
              /\ partials' = partials
         [] OTHER ->
              /\ task' = [task EXCEPT ![t] = [s EXCEPT !.pc = "done", !.result = r]]
              /\ Accumulate(r)

\* the closure's output_path (the if on starts_with)
OutputTarget(path) ==
    IF StartsWith(path, input_root)
    THEN Join(output_root, StripPrefix(path, input_root))
    ELSE output_root

\* image::open tells the format from the extension: a name without one
\* never decodes
CanDecode(path) == IF HasExtension(path) THEN BOOLEAN ELSE {FALSE}

\* new_picture: WebPPicture::new and WebPPictureImportRGB, which allocates
\* the picture's pixels
new_picture(s) ==
    [s EXCEPT !.picture = "live", !.calls = Append(@, "WebPPictureImportRGB")]

\* WebPValidateConfig(config) == 0
ValidateNeverRejects(answer) == FALSE
ValidateRejects(answer) == answer = 0

\* Drop for ManagedPicture: WebPPictureFree
DropPicture(s) ==
    [s EXCEPT !.picture = IF @ = "live" THEN "freed" ELSE "double-free",
              !.calls = Append(@, "WebPPictureFree")]

\* Drop for WebPMemory: one WebPFree
DropWebPMemoryLeaks(frees) == frees
DropWebPMemory(frees) == frees + 1

\* a WebPMemory goes out of scope
DropMem(s) ==
    [s EXCEPT !.mem = "freed", !.mem_frees = DropWebPMemory(@)]

\* status != VP8_STATUS_OK: the buffer is returned
StatusOkYieldsBuffer(status) == status = VP8_STATUS_OK
StatusYieldsBuffer(status) == status # VP8_STATUS_OK

\* encode: the validation, then the memory writer, WebPEncode, the buffer
\* made of the writer's memory and the status test; WebPEncode answers
\* `status` and leaves `len` bytes
encode(s, status, len) ==
    LET checked == [s EXCEPT !.calls = Append(@, "WebPValidateConfig")]
    IN IF ValidateRejects(validate_ok)
       THEN [checked EXCEPT !.enc_err = "VP8_ENC_ERROR_INVALID_CONFIGURATION"]
       ELSE LET done == [checked EXCEPT
                            !.calls = @ \o <<"WebPMemoryWriterInit", "WebPEncode">>,
                            !.mem = "live", !.webp_len = len, !.status = status]
            IN IF StatusYieldsBuffer(status)
               THEN done
               ELSE DropMem([done EXCEPT !.enc_err = "picture.error_code"])

\* image_to_webp: new_picture, encode, and the picture dropped on return
image_to_webp(s, status, len) == DropPicture(encode(new_picture(s), status, len))

\* the encoder's output is shorter than the input file, as long, or longer
EncLens(input_size) == {input_size - 1, input_size, input_size + 1}

\* a fold of the bridge takes the next path from the shared iterator (a fold
\* whose closure panicked takes nothing more), enters the closure and runs
\* convert_file up to the encoded buffer: file_stem()?,
\* open_image_from_path, image_to_webp and map_err(..)?
Convert(t) ==
    /\ run = "running"
    /\ t = next_item
    /\ t \in Tasks
    /\ Cardinality(InFlight) < num_threads - Cardinality(Panicked)
    /\ next_item' = next_item + 1
    /\ \E decoded \in CanDecode(images[t]), status \in {0, 1},
          len \in EncLens(file_len[images[t]]) :
        LET s == [task[t] EXCEPT !.output = OutputTarget(images[t])]
        IN Closure(t,
            IF ~HasFileName(images[t])
            THEN [s EXCEPT !.ret = "err", !.failed_at = "stem"]
            ELSE IF ~decoded
            THEN [s EXCEPT !.ret = "err", !.failed_at = "decode"]
            ELSE LET webp == image_to_webp(s, status, len)
                 IN IF webp.enc_err # "none"
                    THEN [webp EXCEPT !.ret = "err", !.failed_at = "encode"]
                    ELSE [webp EXCEPT !.pc = "exists"])
    /\ UNCHANGED <<fs, static, run, total, writes>>

\* output.join(file_name).with_extension("webp")
WritePathExisting(output, stem) == WithExtension(Join(output, <<stem>>), "webp")
\* output.parent().unwrap().join(file_name).with_extension("webp")
WritePathNew(output, stem) == WithExtension(Join(Parent(output), <<stem>>), "webp")

\* !(&output).exists()
Exists(t) ==
    /\ t \in Tasks
    /\ task[t].pc = "exists"
    /\ task' = [task EXCEPT ![t] =
            IF exists(task[t].output)
            THEN [@ EXCEPT !.pc = "write",
                           !.write_path =
                               WritePathExisting(task[t].output, FileStem(images[t]))]
            ELSE [@ EXCEPT !.pc = "mkdir"]]
    /\ UNCHANGED <<fs, static, run, next_item, partials, total, writes>>

\* fs::create_dir_all: every missing directory of the path is created, in
\* a directory that allows it
DirPrefixes(d) == {SubSeq(d, 1, i) : i \in 1..Len(d)}
CanCreateDirAll(d) ==
    \A q \in DirPrefixes(d) :
        \/ Kind(q) = "dir"
        \/ Kind(q) = "none" /\ Parent(q) \notin readonly
CreateDirAll(d) ==
    [q \in DOMAIN fs \cup DirPrefixes(d) |-> IF q \in DOMAIN fs THEN fs[q] ELSE "dir"]

\* the directory convert_file creates: the parent of a target with an
\* extension, the target itself otherwise
DirToCreate(output) == IF HasExtension(output) THEN Parent(output) ELSE output

\* how a failed create_dir_all leaves convert_file: `?` returns the error
CreateDirFailurePanics == "panic"
CreateDirFailure == "err"

\* how a failed fs::write leaves convert_file: unwrap() panics
WriteFailure == "panic"

\* the target does not exist: create_dir_all(..)?, then the path to write,
\* whose parent().unwrap() panics on the empty path
Mkdir(t) ==
    /\ t \in Tasks
    /\ task[t].pc = "mkdir"
    /\ LET out == task[t].output
           dir == DirToCreate(out)
       IN IF CanCreateDirAll(dir)
          THEN /\ fs' = CreateDirAll(dir)
               /\ Closure(t,
                    IF HasParent(out)
                    THEN [task[t] EXCEPT
                            !.pc = "write",
                            !.write_path = WritePathNew(out, FileStem(images[t]))]
                    ELSE DropMem([task[t] EXCEPT !.ret = "panic",
                                                !.failed_at = "parent"]))
          ELSE /\ fs' = fs
               /\ Closure(t, DropMem([task[t] EXCEPT !.ret = CreateDirFailure,
                                                    !.failed_at = "mkdir"]))
    /\ UNCHANGED <<static, run, next_item, total, writes>>

\* use_initial_if_smaller == 1 && input_size < output_size
FallbackIgnoresFlag(flag, input_size, output_size) == input_size < output_size
Fallback(flag, input_size, output_size) == flag = 1 /\ input_size < output_size

\* fs::write succeeds on a path that is no directory, in a directory, where
\* a file that is not there yet can be created
CanWrite(p) ==
    /\ Len(p) > 0
    /\ Kind(p) \in {"none", "file"}
    /\ Len(p) > 1 => is_dir(Parent(p))
    /\ Kind(p) = "none" => Parent(p) \notin readonly

\* the sizes, the fallback, fs::write(..).unwrap(), the log row and Ok; the
\* buffer is dropped on the return as on the unwinding
Write(t) ==
    /\ t \in Tasks
    /\ task[t].pc = "write"
    /\ LET input_size == file_len[images[t]]
           output_size == task[t].webp_len
           fallback == Fallback(cli.use_initial_if_smaller, input_size, output_size)
           path == task[t].write_path
           read == [task[t] EXCEPT !.mem_bad_read = task[t].mem # "live"]
       IN IF CanWrite(path)
          THEN /\ fs' = (path :> "file") @@ fs
               /\ writes' = writes \cup
                      {[by |-> t, path |-> path,
                        what |-> IF fallback THEN "pixels" ELSE "webp"]}
               /\ Closure(t, DropMem([read EXCEPT
                      !.ret = "ok",
                      !.out_size = IF fallback THEN input_size ELSE output_size]))
          ELSE /\ fs' = fs
               /\ writes' = writes
               /\ Closure(t, DropMem([read EXCEPT !.ret = WriteFailure,
                                                 !.failed_at = "write"]))
    /\ UNCHANGED <<static, run, next_item, total>>

\* reduce: the folds are over, and two of their results are combined, in
\* either order
Reduce ==
    /\ run = "running"
    /\ \A t \in Tasks : task[t].pc = "done"
    /\ \E a \in BagToSet(partials) :
       \E b \in BagToSet(partials (-) SetToBag({a})) :
          partials' = ((partials (-) SetToBag({a})) (-) SetToBag({b}))
                          (+) SetToBag({Combine(a, b)})
    /\ UNCHANGED <<fs, static, run, next_item, task, total, writes>>

\* every closure returned and one partial result is left (none for no
\* image): convert_file_all returns it
Return ==
    /\ run = "running"
    /\ \A t \in Tasks : task[t].pc = "done"
    /\ BagCardinality(partials) <= 1
    /\ total' = IF partials = EmptyBag THEN Identity
                ELSE CHOOSE a \in BagToSet(partials) : TRUE
    /\ run' = "returned"
    /\ UNCHANGED <<fs, static, next_item, task, partials, writes>>

\* a closure panicked and no fold is left running: the pool resumes the
\* panic in convert_file_all's caller, which returns nothing
Unwind ==
    /\ run = "running"
    /\ Panicked # {}
    /\ InFlight = {}
    /\ next_item > Len(images) \/ Cardinality(Panicked) >= num_threads
    /\ run' = "panicked"
    /\ UNCHANGED <<fs, static, next_item, task, partials, total, writes>>

----------------------------------------------------------------------------
(* Spec: a whole run, from the parsed command line to the aggregate.       *)

A == <<"a">>
B == <<"b">>
Out == <<"out">>

\* the files an input tree is drawn from, relative to its root, and their
\* sizes in bytes
RelFiles ==
    << <<B, <<"img", "png">> >>, << <<"img", "png">> >>, << <<"img", "jpg">> >>,
       << <<"img", "v1", "png">> >>, << <<"img", "v2", "png">> >> >>
RelLen == <<2, 1, 2, 1, 2>>

FileSets == {S \in SUBSET (DOMAIN RelFiles) : Cardinality(S) \in 1..MaxFiles}

\* args.rs: Cli::output_path, paths being relative to the working directory
NoOutput == [some |-> FALSE, path |-> << >>]
SomeOutput(p) == [some |-> TRUE, path |-> p]
OutputPath(output, input) == IF output.some THEN output.path ELSE Parent(input)

\* the tree of the files S under `root`
TreeFs(root, S) ==
    LET files == {Join(root, RelFiles[i]) : i \in S}
        dirs == UNION {DirPrefixes(Parent(f)) : f \in files}
    IN [p \in files \cup dirs |-> IF p \in files THEN "file" ELSE "dir"]

TreeLen(root, S) ==
    [p \in {Join(root, RelFiles[i]) : i \in S} |->
        RelLen[CHOOSE i \in S : Join(root, RelFiles[i]) = p]]

\* read_dir of the directories of the tree: sub-directory b first, then the
\* files in the order of RelFiles
TreeListing(root, S) ==
    LET idx == [i \in 1..Len(RelFiles) |-> i]
        InRoot(i) == i \in S /\ Len(RelFiles[i]) = 1
        InB(i) == i \in S /\ Len(RelFiles[i]) = 2
        entry(i) == [ok |-> TRUE, path |-> Join(root, RelFiles[i])]
        sel(T(_)) == LET chosen == SelectSeq(idx, T)
                     IN [j \in 1..Len(chosen) |-> entry(chosen[j])]
        sub == IF \E i \in S : InB(i)
               THEN << [ok |-> TRUE, path |-> Append(root, B)] >> ELSE << >>
    IN IF \E i \in S : InB(i)
       THEN (root :> (sub \o sel(InRoot))) @@ (Append(root, B) :> sel(InB))
       ELSE (root :> sel(InRoot))

\* the command lines and the filesystems they meet
Layouts ==
    \* a directory, converted into out, in place, or beside itself
    {[input |-> <<A>>, output |-> o, files |-> S] :
        o \in {SomeOutput(<<Out>>), SomeOutput(<<A>>), NoOutput}, S \in FileSets}
    \cup
    \* one file, in a directory or in the working directory
    {[input |-> Join(r, RelFiles[i]), output |-> o, files |-> {i}] :
        o \in {SomeOutput(<<Out>>), NoOutput},
        i \in {j \in DOMAIN RelFiles : Len(RelFiles[j]) = 1}, r \in {<<A>>, << >>}}

LayoutRoot(L) == IF Len(L.input) > 0 /\ L.input[1] = A THEN <<A>> ELSE << >>

\* the directory that is read-only, if one is: for a tree converted into
\* out, the working directory, out or out/b; a read-only directory is there
ReadOnlyChoices(L) ==
    IF L.input = <<A>> /\ L.output = SomeOutput(<<Out>>)
    THEN {{}} \cup {{d} : d \in {<< >>, <<Out>>, <<Out, B>>}}
    ELSE {{}}
PreExisting(ro) == [p \in UNION {DirPrefixes(d) : d \in ro} |-> "dir"]

Init ==
    \E L \in Layouts, flag \in {0, 1}, v \in {0, 1}, n \in {1, MaxThreads} :
    \E ro \in ReadOnlyChoices(L) :
        /\ fs = TreeFs(LayoutRoot(L), L.files) @@ PreExisting(ro)
        /\ readonly = ro
        /\ file_len = TreeLen(LayoutRoot(L), L.files)
        /\ listing = TreeListing(LayoutRoot(L), L.files)
        /\ cli = DefaultCli(DefaultMaxDepth, flag)
        /\ input_root = L.input
        /\ output_root = OutputPath(L.output, L.input)
        /\ validate_ok = v
        /\ num_threads = n
        /\ config = NoConfig
        /\ images = << >>
        /\ run = "start"
        /\ next_item = 1
        /\ task = << >>
        /\ partials = EmptyBag
        /\ total = <<0, 0, 0>>
        /\ writes = {}

Next ==
    \/ GenerateConfig
    \/ Build
    \/ Start
    \/ \E t \in Tasks : Convert(t)
    \/ \E t \in Tasks : Exists(t)
    \/ \E t \in Tasks : Mkdir(t)
    \/ \E t \in Tasks : Write(t)
    \/ Reduce
    \/ Return
    \/ Unwind

Spec == Init /\ [][Next]_vars

----------------------------------------------------------------------------
(* The aggregate. *)

RECURSIVE SumOf(_, _, _)
\* the sum over the tasks T of the k-th component of f(t)
SumOf(T, f(_), k) ==
    IF T = {} THEN 0
    ELSE LET t == CHOOSE x \in T : TRUE
         IN f(t)[k] + SumOf(T \ {t}, f, k)

ResultOf(t) == task[t].result
Done == {t \in Tasks : task[t].pc = "done"}

\* the sum of the partial results, copies counted
PartialSum(k) ==
    LET Weighted(a) == <<a[1] * CopiesIn(a, partials), a[2] * CopiesIn(a, partials),
                         a[3] * CopiesIn(a, partials)>>
    IN SumOf(BagToSet(partials), Weighted, k)

\* C2: whatever the order in which the closures return and however their
\* triples are grouped into partial results and combined, the partial
\* results add up to the component-wise sum of the triples of the closures
\* that returned, and the triple convert_file_all returns is the
\* component-wise sum of all per-task triples.
C2_AggregateIsSum ==
    /\ run = "running" =>
          \A k \in 1..3 : PartialSum(k) = SumOf(Done, ResultOf, k)
    /\ run = "returned" =>
          total = <<SumOf(Tasks, ResultOf, 1), SumOf(Tasks, ResultOf, 2),
                    SumOf(Tasks, ResultOf, 3)>>

\* a run over two images on two threads that returned, both converted
C2_Witness ==
    /\ run = "returned"
    /\ num_threads >= 2
    /\ Cardinality(Tasks) >= 2
    /\ \A t \in Tasks : task[t].ret = "ok" /\ task[t].out_size > 0

InputLen(t) == <<file_len[images[t]]>>
OkSize(t) == <<IF task[t].ret = "ok" THEN task[t].out_size ELSE 0>>
Failed == {t \in Tasks : task[t].ret = "err"}

\* C3: when a run over N images returns, K of them failed with a per-file
\* error, file_count is N, total_input_size is the sum of the input sizes of
\* all N, each failed image contributed 0 to total_output_size, and
\* total_output_size is the sum of the reported sizes of the N-K others.
C3_FailuresCountZeroOutput ==
    run = "returned" =>
        /\ total[3] = Len(images)
        /\ total[1] = SumOf(Tasks, InputLen, 1)
        /\ total[2] = SumOf(Tasks \ Failed, OkSize, 1)
        /\ \A t \in Failed : task[t].result[2] = 0 /\ task[t].result[3] = 1

\* a returned run with a failed image and a converted one
C3_Witness ==
    /\ run = "returned"
    /\ Failed # {}
    /\ \E t \in Tasks : task[t].ret = "ok" /\ task[t].out_size > 0

----------------------------------------------------------------------------
(* The run as a whole. *)

\* C4: a started run executes every image's closure to completion and
\* returns an aggregate, whatever the outcome of any closure: whenever the
\* run can take no further step, convert_file_all has returned and every
\* closure has returned into the aggregate.
C4_EveryTaskCompletes ==
    (run \in {"running", "returned", "panicked"} /\ ~ENABLED Next) =>
        /\ run = "returned"
        /\ \A t \in Tasks : task[t].pc = "done"

\* C4, the part about siblings: no image is left unprocessed because another
\* image's closure failed.
C4_NoSiblingStarved ==
    run = "panicked" => \A t \in Tasks : task[t].pc # "idle"

----------------------------------------------------------------------------
(* convert_file. *)

Returned == {t \in Tasks : task[t].ret = "ok"}

C5_WitnessFlagOff ==
    \E t \in Returned :
        /\ cli.use_initial_if_smaller = 0
        /\ file_len[images[t]] < task[t].webp_len
        /\ task[t].out_size = task[t].webp_len

\* output_root/R/stem.webp for the input root/R/stem.ext: the name keeps
\* every segment of the stem
MirroredPath(path) ==
    LET rel == StripPrefix(path, input_root)
        name == rel[Len(rel)]
    IN Join(output_root, Append(Parent(rel), Append(NameStem(name), "webp")))

\* C6: every image below the input root that converts is written to
\* output_root/R/stem.webp, R being its directory relative to the root and
\* stem its name without the extension.
C6_MirroredOutputPath ==
    \A w \in writes :
        Len(images[w.by]) > Len(input_root) => w.path = MirroredPath(images[w.by])

\* C7: the buffer a closure got from encode is freed exactly once when the
\* closure is over, on every way out (written, encode's error, a failed
\* create_dir_all, a panic), it is live and unfreed while convert_file still
\* uses it, and it is never read when not live.
C7_FreedExactlyOnce ==
    \A t \in Tasks :
        /\ task[t].mem_frees <= 1
        /\ ~task[t].mem_bad_read
        /\ task[t].mem = "none" => task[t].mem_frees = 0
        /\ t \in InFlight => task[t].mem = "live" /\ task[t].mem_frees = 0
        /\ (task[t].pc \in {"done", "panicked"} /\ task[t].mem # "none") =>
              task[t].mem = "freed" /\ task[t].mem_frees = 1

\* a closure that panicked in fs::write after its buffer was read
C7_Witness ==
    \E t \in Tasks :
        /\ task[t].pc = "panicked"
        /\ task[t].failed_at = "write"
        /\ task[t].mem = "freed"
        /\ task[t].mem_frees = 1

Called(t, f) == \E i \in DOMAIN task[t].calls : task[t].calls[i] = f
Before(t, f, g) ==
    \A i \in DOMAIN task[t].calls :
        task[t].calls[i] = g => \E j \in 1..(i - 1) : task[t].calls[j] = f

\* C8 as claimed: WebPValidateConfig is called before every allocation of
\* the encode, the picture import and the memory writer alike, and a
\* rejected configuration returns InvalidConfiguration with nothing
\* allocated and the encoder not called.
C8_ValidateBeforeAnyAllocation ==
    \A t \in Tasks :
        /\ Before(t, "WebPValidateConfig", "WebPPictureImportRGB")
        /\ Before(t, "WebPValidateConfig", "WebPMemoryWriterInit")
        /\ task[t].enc_err = "VP8_ENC_ERROR_INVALID_CONFIGURATION" =>
              /\ ~Called(t, "WebPPictureImportRGB")
              /\ ~Called(t, "WebPMemoryWriterInit")
              /\ ~Called(t, "WebPEncode")

\* C8 amended: the picture is imported before the validation;
\* WebPValidateConfig is called before the memory writer is initialised and
\* before the encoder is called, and a rejected configuration returns
\* InvalidConfiguration with no memory writer, no encoder call and no
\* buffer, the picture imported before being freed on the return.
C8_ValidateBeforeWriterAndEncoder ==
    \A t \in Tasks :
        /\ Before(t, "WebPPictureImportRGB", "WebPValidateConfig")
        /\ Before(t, "WebPValidateConfig", "WebPMemoryWriterInit")
        /\ Before(t, "WebPValidateConfig", "WebPEncode")
        /\ (Called(t, "WebPValidateConfig") /\ validate_ok = 0) =>
              /\ task[t].enc_err = "VP8_ENC_ERROR_INVALID_CONFIGURATION"
              /\ ~Called(t, "WebPMemoryWriterInit")
              /\ ~Called(t, "WebPEncode")
              /\ task[t].mem = "none"
              /\ task[t].picture = "freed"

\* a closure whose configuration was rejected
C8_Witness ==
    \E t \in Tasks :
        /\ validate_ok = 0
        /\ Called(t, "WebPValidateConfig")
        /\ task[t].enc_err = "VP8_ENC_ERROR_INVALID_CONFIGURATION"

\* C10 as claimed: an I/O error of create_dir_all or of fs::write is never
\* recovered: the closure panics and no (input_size, 0, 1) is accumulated
\* for it.
C10_IoErrorsPanic ==
    \A t \in Tasks :
        task[t].failed_at \in {"mkdir", "write"} =>
            /\ task[t].pc = "panicked"
            /\ task[t].result = <<0, 0, 0>>

\* C10 amended: an I/O error of fs::write is not recovered: the closure
\* panics, nothing is accumulated for it and the run returns no aggregate;
\* an I/O error of create_dir_all is recovered like a stem, decode or encode
\* failure: convert_file returns it and (input_size, 0, 1) is accumulated.
C10_WritePanicsMkdirRecovered ==
    \A t \in Tasks :
        /\ task[t].failed_at = "write" =>
              /\ task[t].pc = "panicked"
              /\ task[t].result = <<0, 0, 0>>
              /\ run # "returned"
        /\ task[t].failed_at = "mkdir" =>
              /\ task[t].pc = "done"
              /\ task[t].ret = "err"
              /\ task[t].result = <<file_len[images[t]], 0, 1>>

\* one image's create_dir_all failed and was accumulated, another's
\* fs::write failed and panicked
C10_Witness ==
    /\ \E t \in Tasks : task[t].failed_at = "mkdir" /\ task[t].pc = "done"
    /\ \E t \in Tasks : task[t].failed_at = "write" /\ task[t].pc = "panicked"

\* C11: after a configuration that passed validation, encode compares the
\* status WebPEncode returned with VP8_STATUS_OK: it returns Ok(buffer)
\* exactly when the status differs from VP8_STATUS_OK and
\* Err(picture.error_code) exactly when the status equals it.
C11_StatusTest ==
    \A t \in Tasks :
        Called(t, "WebPEncode") =>
            /\ task[t].enc_err \in {"none", "picture.error_code"}
            /\ task[t].enc_err = "none" <=> task[t].status # VP8_STATUS_OK
            /\ task[t].enc_err = "picture.error_code" <=> task[t].status = VP8_STATUS_OK
            /\ task[t].enc_err = "none" => task[t].failed_at # "encode"
            /\ task[t].enc_err = "picture.error_code" =>
                  task[t].failed_at = "encode" /\ task[t].ret = "err"

\* the encoder returned VP8_STATUS_OK and encode returned the picture's error
\* code; for another image it returned something else and encode returned
\* the buffer
C11_Witness ==
    /\ \E t \in Tasks :
          /\ task[t].status = VP8_STATUS_OK
          /\ task[t].enc_err = "picture.error_code"
    /\ \E t \in Tasks :
          /\ task[t].status # VP8_STATUS_OK
          /\ task[t].status # -1
          /\ task[t].enc_err = "none"
          /\ task[t].ret = "ok"

----------------------------------------------------------------------------
(* Read errors and the depth bound while a directory is listed. *)

\* the position of p in the listing of its directory (0: not listed)
PositionOf(p) ==
    LET entries == read_dir(Parent(p))
    IN IF \E i \in DOMAIN entries : entries[i].path = p
       THEN CHOOSE i \in DOMAIN entries : entries[i].path = p
       ELSE 0

\* the loop over p's directory gets as far as p: p and every entry listed
\* before it were read, and p is within the depth bound
Listed(p) ==
    /\ PositionOf(p) > 0
    /\ \A j \in 1..PositionOf(p) : read_dir(Parent(p))[j].ok
    /\ DepthBelow(p, input_root) <= cli.max_depth

RECURSIVE Enumerated(_)
\* flatten_dir is called on p: p is the root, or the loop over its directory
\* gets as far as p and flatten_dir is called on that directory
Enumerated(p) ==
    \/ p = input_root
    \/ /\ StartsWith(p, input_root)
       /\ Len(p) > Len(input_root)
       /\ Listed(p)
       /\ Enumerated(Parent(p))

\* the entries of directory q from its first failed read on, all of them
\* when q's entries are beyond the depth bound
CutOff(q) ==
    {read_dir(q)[j].path : j \in
        {j \in DOMAIN read_dir(q) :
            \/ DepthBelow(q, input_root) + 1 > cli.max_depth
            \/ \E i \in 1..j : ~read_dir(q)[i].ok}}

\* C12: a failed entry read, or the depth bound, ends the enumeration of
\* that directory: the files appended before it stay in the result, no
\* entry of the directory from that point on is appended, nor anything
\* below one, and the entries of the ancestor directories are enumerated as
\* if nothing had happened. The result is the files that are reached through
\* directories each listed without a failure up to the entry leading on.
C12_ReturnsOnFailedEntry ==
    run = "built" =>
        /\ Range(images) = {p \in DOMAIN fs : is_file(p) /\ Enumerated(p)}
        /\ Len(images) = Cardinality(Range(images))
        /\ \A q \in DOMAIN listing : \A c \in CutOff(q) :
              \A p \in Range(images) : ~StartsWith(p, c)

\* in r/x the second entry fails to read: the file listed before it is in
\* the result, the file listed after it is not, and the file listed after
\* r/x in the root is
C12_Witness ==
    /\ run = "built"
    /\ \E q \in DOMAIN listing \ {input_root} :
       \E i \in DOMAIN listing[q] :
          /\ ~listing[q][i].ok
          /\ \E j \in 1..(i - 1) : listing[q][j].path \in Range(images)
          /\ \E j \in (i + 1)..Len(listing[q]) :
                /\ is_file(listing[q][j].path)
                /\ DepthBelow(listing[q][j].path, input_root) <= cli.max_depth
                /\ listing[q][j].path \notin Range(images)
          /\ \E a \in Range(images) :
                /\ Parent(a) = Parent(q)
                /\ PositionOf(a) > PositionOf(q)

\* the depth bound cuts a directory off: a directory at depth max_depth is
\* entered, none of its entries is appended, and a file listed after it in
\* its parent is
C12_WitnessDepth ==
    /\ run = "built"
    /\ NoReadError
    /\ \E q \in DOMAIN listing \ {input_root} :
          /\ DepthBelow(q, input_root) = cli.max_depth
          /\ \E i \in DOMAIN listing[q] : is_file(listing[q][i].path)
          /\ \E a \in Range(images) :
                /\ Parent(a) = Parent(q)
                /\ PositionOf(a) > PositionOf(q)

----------------------------------------------------------------------------
(* Output paths of distinct inputs. *)

\* the paths written
WrittenPaths == {w.path : w \in writes}

\* C13: two distinct images are never written to the same output path, and
\* the number of files written is the number of images that converted, also
\* for images of one directory with one stem and different extensions, or
\* whose names differ only after an inner dot.
C13_DistinctOutputPaths ==
    /\ \A w1, w2 \in writes : w1.by # w2.by => w1.path # w2.path
    /\ run = "returned" => Cardinality(WrittenPaths) = Cardinality(Returned)

====
